---- MODULE Spec2Model ----
(***************************************************************************)
(* Model of src/src/App.tsx, which holds two revisions of the same form:    *)
(*   revision 1: LongevityCalculator (lines 23-157), handleCalculate        *)
(*   revision 2: App (lines 178-312), calculateScore                        *)
(* A behaviour fixes one revision (rev) and then interleaves user events    *)
(* (typing, clicking the button, pressing Enter) with the settling of the   *)
(* fetch promise and of the response.json() promise of issued requests.     *)
(*                                                                         *)
(* Strings typed by the user are sequences over Alphabet, so toUpperCase    *)
(* and emptiness are computed, not assumed.  Scores are fixed-point         *)
(* numbers in tenths (79.9 is 799).                                         *)
(***************************************************************************)
EXTENDS Integers, Sequences, FiniteSets, TLC

VARIABLES rev, symbol, loading, error, result, inflight, reqCount, last

vars == <<rev, symbol, loading, error, result, inflight, reqCount, last>>

\* ------------------------------------------------------------------ bounds
MaxLen == 2

MaxRequests == 2

\* ------------------------------------------------------------ user strings
Alphabet == {"a", "A", " "}

Strings == UNION {[1..k -> Alphabet] : k \in 0..MaxLen}

\* String.prototype.toUpperCase on the modelled alphabet
toUpperCase(s) == [i \in 1..Len(s) |-> IF s[i] = "a" THEN "A" ELSE s[i]]

\* JavaScript truthiness of a string: only '' is falsy
Truthy(s) == s # <<>>

\* ------------------------------------------------------------ JS values
null == [kind |-> "null"]

undefined == "<undefined>"

\* the initial value of the error field: '' in revision 1, null in revision 2;
\* both are falsy, so `{error && ...}` renders nothing
NoError(r) == IF r = 1 THEN "" ELSE "<null>"

ErrorShown(e) == e \notin {"", "<null>"}

\* ------------------------------------------------------------ numbers
Tenths(n) == n * 10

ScoreSeq == <<Tenths(-5), Tenths(40) - 1, Tenths(40), Tenths(60) - 1,
              Tenths(60), Tenths(80) - 1, Tenths(80), Tenths(105)>>

ScoreVals == {ScoreSeq[i] : i \in 1..Len(ScoreSeq)}

\* ------------------------------------------------------------ payloads
\* interface ComponentScores: the declared key order
DeclaredKeys == <<"financial_health", "market_position", "operational_efficiency",
                  "corporate_structure", "innovation_adaptability", "governance_risk">>

\* key orders in which the server may serialise the components object
KeyOrders == {DeclaredKeys,
              <<"governance_risk", "corporate_structure", "financial_health",
                "innovation_adaptability", "market_position", "operational_efficiency">>}

KeyIndex(k) == CHOOSE i \in 1..Len(DeclaredKeys) : DeclaredKeys[i] = k

ScoreIndex(s) == CHOOSE i \in 1..Len(ScoreSeq) : ScoreSeq[i] = s

ComponentValue(k, s) == ScoreSeq[((ScoreIndex(s) + KeyIndex(k)) % Len(ScoreSeq)) + 1]

KeySet == {DeclaredKeys[i] : i \in 1..Len(DeclaredKeys)}

\* interface CalculationResult as parsed by JSON.parse: an object keeps its
\* own properties (get) and the order in which the JSON text listed them (keys)
CalculationResult(s, order) ==
    [kind |-> "object", score |-> s,
     components |-> [keys |-> order, get |-> [k \in KeySet |-> ComponentValue(k, s)]]]

\* overall scores of the payloads; with its six component values a payload
\* carries seven of the eight values of ScoreSeq
PayloadScores == {Tenths(40) - 1, Tenths(60), Tenths(105)}

Payloads == {CalculationResult(s, o) : s \in PayloadScores, o \in KeyOrders}

\* error bodies {"error"?: string, "detail"?: string}
ErrorBodies == [kind : {"object"},
                error : {undefined, "", "symbol not found"},
                detail : {undefined, "invalid ticker"}]

NotJson == [kind |-> "notjson"]

HttpStatus == {200, 429, 500}

ok(status) == status >= 200 /\ status <= 299

\* bodies the server may send with a status
Bodies(status) == IF ok(status) THEN Payloads \cup {null, NotJson}
                  ELSE ErrorBodies \cup {null, NotJson}

\* ------------------------------------------------------------ thrown values
\* a thrown value: whether it is an instance of Error, and its message
Thrown(m) == [isError |-> TRUE, message |-> m]

\* fetch() rejects with a TypeError when the network is unreachable
FetchRejections == {Thrown("Failed to fetch")}

\* response.json() rejects with a SyntaxError when the body is not JSON
JsonSyntaxError == Thrown("Unexpected token < in JSON at position 0")

\* reading a property of null throws a TypeError
NullPropertyError == Thrown("Cannot read properties of null")

RateLimitMessage == "Rate limit exceeded. Please try again in a few minutes."

FallbackMessage(r) == IF r = 1 THEN "Failed to calculate longevity score"
                      ELSE "Failed to calculate score"

\* JavaScript a || b on strings: undefined and '' are falsy
JsOr(a, b) == IF a \in {undefined, ""} THEN b ELSE a

\* revision 1, lines 45-50: the Error thrown for a response that is not ok
NotOkError1(status, data) ==
    IF status = 429 THEN Thrown(RateLimitMessage)
    ELSE IF data = null THEN NullPropertyError
    ELSE Thrown(JsOr(data.detail, JsOr(data.error, FallbackMessage(1))))

\* revision 2, lines 201-203: the Error thrown for a response that is not ok
NotOkError2(status, data) ==
    IF data = null THEN NullPropertyError
    ELSE Thrown(JsOr(data.error, FallbackMessage(2)))

NotOkError(r, status, data) ==
    IF r = 1 THEN NotOkError1(status, data) ELSE NotOkError2(status, data)

\* revision 1 line 54, revision 2 line 208: the message the catch block stores
CatchFallback(r) == IF r = 1 THEN "An unexpected error occurred"
                    ELSE "An error occurred while calculating the score"

CatchMessage(r, err) == IF err.isError THEN err.message ELSE CatchFallback(r)

\* ------------------------------------------------------------ rendering
\* revision 1's thresholds with > in place of >=
getScoreColor1Exclusive(score) ==
    IF score > Tenths(80) THEN "text-green-600"
    ELSE IF score > Tenths(60) THEN "text-blue-600"
    ELSE IF score > Tenths(40) THEN "text-yellow-600"
    ELSE "text-red-600"

\* revision 1, lines 66-71
getScoreColor1(score) ==
    IF score >= Tenths(80) THEN "text-green-600"
    ELSE IF score >= Tenths(60) THEN "text-blue-600"
    ELSE IF score >= Tenths(40) THEN "text-yellow-600"
    ELSE "text-red-600"

\* revision 2 with its lower threshold at 50 in place of 60
getScoreColor2LowerThreshold(score) ==
    IF score >= Tenths(80) THEN "#22c55e"
    ELSE IF score >= Tenths(50) THEN "#eab308"
    ELSE "#ef4444"

\* revision 2, lines 214-218
getScoreColor2(score) ==
    IF score >= Tenths(80) THEN "#22c55e"
    ELSE IF score >= Tenths(60) THEN "#eab308"
    ELSE "#ef4444"

getScoreColor(r, score) == IF r = 1 THEN getScoreColor1(score) ELSE getScoreColor2(score)

\* Object.entries: the own properties of an object in insertion order
ObjectEntries(obj) == [i \in 1..Len(obj.keys) |-> <<obj.keys[i], obj.get[obj.keys[i]]>>]

\* the rows drawn for the components (lines 133-148 and 286-297): one row per
\* entry, in the order of Object.entries
renderComponents(r, res) ==
    LET entries == ObjectEntries(res.components) IN
    [i \in 1..Len(entries) |->
        [key |-> entries[i][1], value |-> entries[i][2],
         color |-> getScoreColor(r, entries[i][2])]]

\* the colour of the overall score (lines 120 and 280)
renderScore(r, res) == [value |-> res.score, color |-> getScoreColor(r, res.score)]

\* the Progress component of revision 1 (imported at line 6 from
\* @/components/ui/progress): its bar is filled to the value held within
\* 0..100
Progress(value) ==
    IF value < Tenths(0) THEN Tenths(0)
    ELSE IF value > Tenths(100) THEN Tenths(100)
    ELSE value

\* revision 2, line 293: '--progress': `${value}%`
progressStyle(value) == value

\* the bars drawn for a result, each with its value and its fill: revision 1
\* draws one for the overall score (124-127) and one per component (143-146),
\* revision 2 one per component (292-295)
progressBars(r, res) ==
    LET rows == renderComponents(r, res) IN
    IF r = 1
    THEN {[value |-> res.score, fill |-> Progress(res.score)]}
         \cup {[value |-> rows[i].value, fill |-> Progress(rows[i].value)] : i \in 1..Len(rows)}
    ELSE {[value |-> rows[i].value, fill |-> progressStyle(rows[i].value)] : i \in 1..Len(rows)}

\* `{result && ...}` (lines 115 and 276): the result block is drawn
ResultShown == result # null

\* ------------------------------------------------------------ state
Request(id, sym) == [id |-> id, symbol |-> sym, stage |-> "fetch", status |-> 0]

NoBody == [kind |-> "none"]

Event(ev, accepted, status, body) ==
    [ev |-> ev, accepted |-> accepted, status |-> status, body |-> body]

Init ==
    /\ rev \in {1, 2}
    /\ symbol = <<>>
    /\ loading = FALSE
    /\ error = NoError(rev)
    /\ result = null
    /\ inflight = {}
    /\ reqCount = 0
    /\ last = Event("init", FALSE, 0, NoBody)

\* ------------------------------------------------------------ handlers
\* onChange of the input: revision 1 (line 88) stores the upper-cased value
\* and the input is disabled while loading (line 91); revision 2 (line 252)
\* stores the value as typed and is never disabled
\* the input without its disabled attribute
InputNeverDisabled == FALSE

InputDisabled == rev = 1 /\ loading

\* onChange that also dismisses the error
onChangeClearsError(v) ==
    /\ ~InputDisabled
    /\ v # symbol
    /\ symbol' = (IF rev = 1 THEN toUpperCase(v) ELSE v)
    /\ error' = NoError(rev)
    /\ last' = Event("type", FALSE, 0, NoBody)
    /\ UNCHANGED <<rev, loading, result, inflight, reqCount>>

onChange(v) ==
    /\ ~InputDisabled
    /\ v # symbol
    /\ symbol' = (IF rev = 1 THEN toUpperCase(v) ELSE v)
    /\ last' = Event("type", FALSE, 0, NoBody)
    /\ UNCHANGED <<rev, loading, error, result, inflight, reqCount>>

\* the handler without its setError('') call
handleCalculateKeepsError(ev) ==
    IF ~Truthy(symbol)
    THEN /\ last' = Event(ev, FALSE, 0, NoBody)
         /\ UNCHANGED <<rev, symbol, loading, error, result, inflight, reqCount>>
    ELSE /\ loading' = TRUE
         /\ inflight' = inflight \cup {Request(reqCount + 1, toUpperCase(symbol))}
         /\ reqCount' = reqCount + 1
         /\ last' = Event(ev, TRUE, 0, NoBody)
         /\ UNCHANGED <<rev, symbol, error, result>>

\* handleCalculate (29-41) / calculateScore (184-197) up to the first await:
\* the guard on symbol, setLoading(true), setError(''), and the fetch call
handleCalculate(ev) ==
    IF ~Truthy(symbol)
    THEN /\ last' = Event(ev, FALSE, 0, NoBody)
         /\ UNCHANGED <<rev, symbol, loading, error, result, inflight, reqCount>>
    ELSE /\ loading' = TRUE
         /\ error' = NoError(rev)
         /\ inflight' = inflight \cup {Request(reqCount + 1, toUpperCase(symbol))}
         /\ reqCount' = reqCount + 1
         /\ last' = Event(ev, TRUE, 0, NoBody)
         /\ UNCHANGED <<rev, symbol, result>>

\* the button's disabled attribute without its loading disjunct
ButtonDisabledIgnoresLoading == ~Truthy(symbol)

\* the button's disabled attribute (lines 95 and 257)
ButtonDisabled == loading \/ ~Truthy(symbol)

\* a click on the enabled button runs the handler (lines 94 and 256)
Click ==
    /\ ~ButtonDisabled
    /\ reqCount < MaxRequests
    /\ handleCalculate("click")

\* a click on the disabled button dispatches no event
ClickDisabled ==
    /\ ButtonDisabled
    /\ last' = Event("click_disabled", FALSE, 0, NoBody)
    /\ UNCHANGED <<rev, symbol, loading, error, result, inflight, reqCount>>

\* Enter pressed in the input: revision 1 runs handleKeyPress (60-64),
\* revision 2 has no key handler on its input (249-254)
handleKeyPress ==
    /\ ~InputDisabled
    /\ IF rev = 1 /\ Truthy(symbol) /\ ~loading
       THEN reqCount < MaxRequests /\ handleCalculate("enter")
       ELSE /\ last' = Event("enter", FALSE, 0, NoBody)
            /\ UNCHANGED <<rev, symbol, loading, error, result, inflight, reqCount>>

\* catch without finally: setError(message) only
CatchFinallyKeepsLoading(req, err, ev) ==
    /\ error' = CatchMessage(rev, err)
    /\ inflight' = inflight \ {req}
    /\ last' = ev
    /\ UNCHANGED <<rev, symbol, loading, result, reqCount>>

\* catch and finally (53-57, 206-211): setError(message), setLoading(false)
CatchFinally(req, err, ev) ==
    /\ error' = CatchMessage(rev, err)
    /\ loading' = FALSE
    /\ inflight' = inflight \ {req}
    /\ last' = ev
    /\ UNCHANGED <<rev, symbol, result, reqCount>>

\* a rejected fetch that is tried again instead of reported
FetchRejectsRetries(req, err) ==
    /\ req.stage = "fetch"
    /\ reqCount < MaxRequests
    /\ inflight' = (inflight \ {req}) \cup {Request(reqCount + 1, req.symbol)}
    /\ reqCount' = reqCount + 1
    /\ last' = Event("fetch_rejected", FALSE, 0, NoBody)
    /\ UNCHANGED <<rev, symbol, loading, error, result>>

\* await fetch(...) rejects: control goes to catch, then finally
FetchRejects(req, err) ==
    /\ req.stage = "fetch"
    /\ CatchFinally(req, err, Event("fetch_rejected", FALSE, 0, NoBody))

\* await fetch(...) resolves with a response of some status; the handler
\* goes on to await response.json() (lines 43 and 199)
FetchResolves(req, status) ==
    /\ req.stage = "fetch"
    /\ inflight' = (inflight \ {req}) \cup {[req EXCEPT !.stage = "json", !.status = status]}
    /\ last' = Event("fetch_resolved", FALSE, status, NoBody)
    /\ UNCHANGED <<rev, symbol, loading, error, result, reqCount>>

\* the end of the handler without its setResult(data) call
JsonSettlesNoSetResult(req, body) ==
    /\ req.stage = "json"
    /\ LET ev == Event("json_settled", FALSE, req.status, body) IN
       IF body = NotJson
       THEN CatchFinally(req, JsonSyntaxError, ev)
       ELSE IF ~ok(req.status)
       THEN CatchFinally(req, NotOkError(rev, req.status, body), ev)
       ELSE /\ loading' = FALSE
            /\ inflight' = inflight \ {req}
            /\ last' = ev
            /\ UNCHANGED <<rev, symbol, error, result, reqCount>>

\* await response.json() settles: it rejects for a body that is not JSON;
\* otherwise lines 45-57 (201-211) run to the end of the handler
JsonSettles(req, body) ==
    /\ req.stage = "json"
    /\ LET ev == Event("json_settled", FALSE, req.status, body) IN
       IF body = NotJson
       THEN CatchFinally(req, JsonSyntaxError, ev)
       ELSE IF ~ok(req.status)
       THEN CatchFinally(req, NotOkError(rev, req.status, body), ev)
       ELSE /\ result' = body
            /\ loading' = FALSE
            /\ inflight' = inflight \ {req}
            /\ last' = ev
            /\ UNCHANGED <<rev, symbol, error, reqCount>>

Next ==
    \/ \E v \in Strings : onChange(v)
    \/ Click
    \/ ClickDisabled
    \/ handleKeyPress
    \/ \E req \in inflight, err \in FetchRejections : FetchRejects(req, err)
    \/ \E req \in inflight, status \in HttpStatus : FetchResolves(req, status)
    \/ \E req \in inflight : \E body \in Bodies(req.status) : JsonSettles(req, body)

Spec == Init /\ [][Next]_vars

\* the handler called as a function, whatever the state of the controls: no
\* disabled attribute and no handleKeyPress guard stands in front of it
Submit ==
    /\ reqCount < MaxRequests \/ ~Truthy(symbol)
    /\ handleCalculate("call")

NextDirect == Next \/ Submit

\* the component with its handler also called directly
SpecDirect == Init /\ [][NextDirect]_vars

TypeOK ==
    /\ rev \in {1, 2}
    /\ symbol \in Strings
    /\ loading \in BOOLEAN
    /\ result \in Payloads \cup {null}
    /\ reqCount \in 0..MaxRequests
    /\ \A req \in inflight : req.id \in 1..reqCount /\ req.symbol \in Strings

\* ==================================================================== C1
\* C1: after any sequence of typing, clicks, Enter presses and response
\* arrivals, at most one request is in flight, a request is in flight only
\* while loading, and while loading the button is disabled
C1_AtMostOneInFlight ==
    /\ Cardinality(inflight) <= 1
    /\ (inflight # {} <=> loading)
    /\ (loading => ButtonDisabled)

\* a click arrived while a request was pending and the request is still the
\* only one
C1_Witness ==
    /\ loading
    /\ Cardinality(inflight) = 1
    /\ last.ev = "click_disabled"
    /\ reqCount < MaxRequests

\* ==================================================================== C2
\* String.prototype.trim leaves nothing: empty or whitespace only
IsBlank(s) == \A i \in 1..Len(s) : s[i] = " "

SubmitEvents == {"click", "click_disabled", "enter"}

\* C2: a submit (click or Enter) while the symbol is empty or whitespace
\* only issues no request and changes no state field
C2_BlankSubmitIsNoOp ==
    [][(IsBlank(symbol) /\ last'.ev \in SubmitEvents /\ last' # last)
        => UNCHANGED <<symbol, loading, error, result, inflight, reqCount>>]_vars

\* ==================================================================== C3
\* C3: every response with status 429, whatever its body, ends in Failed
\* with the fixed rate-limit message
C3_RateLimitMessage ==
    (last.ev = "json_settled" /\ last.status = 429)
        => (~loading /\ error = RateLimitMessage)

\* ==================================================================== C4
GenericMessages == {FallbackMessage(rev), CatchFallback(rev)}

TransportFailure ==
    \/ last.ev = "fetch_rejected"
    \/ last.ev = "json_settled" /\ last.body = NotJson

\* C4: every transport-level failure (fetch rejects, or the body is not
\* JSON) ends in Failed with the generic fallback message
C4_TransportFailureGeneric ==
    TransportFailure => (~loading /\ error \in GenericMessages)

\* ==================================================================== C5
\* the server-supplied error/detail fields of a body that carry a message
ServerMessages(body) ==
    IF body.kind # "object" THEN {}
    ELSE {body.error, body.detail} \ {undefined, ""}

\* C5: for a non-success response other than 429 the message is a
\* server-supplied error/detail field when the body has one, otherwise the
\* generic fallback
C5_MessagePriority ==
    (last.ev = "json_settled" /\ ~ok(last.status) /\ last.status # 429)
        => /\ ~loading
           /\ IF ServerMessages(last.body) # {}
              THEN error \in ServerMessages(last.body)
              ELSE error = FallbackMessage(rev)

\* ==================================================================== C6
\* C6: a success status with a well-formed payload ends in Succeeded: the
\* stored result is the payload, loading is false and no error is held
C6_SuccessStoresPayload ==
    (last.ev = "json_settled" /\ ok(last.status) /\ last.body \in Payloads)
        => (result = last.body /\ ~loading /\ ~ErrorShown(error))

\* a payload whose keys are not in the declared order was stored, after an
\* earlier request had failed
C6_Witness ==
    /\ last.ev = "json_settled"
    /\ ok(last.status)
    /\ last.body \in Payloads
    /\ last.body.components.keys # DeclaredKeys
    /\ result = last.body
    /\ reqCount = 2

\* ==================================================================== C7
\* C7 as stated: right after an accepted submit neither the previous result
\* nor the previous error is held
C7_SubmitDiscardsResultAndError ==
    last.accepted => (loading /\ ~ErrorShown(error) /\ result = null)

\* C7 amended: an accepted submit sets loading, clears the error and leaves
\* the stored result as it was
C7_SubmitClearsErrorKeepsResult ==
    [][last'.accepted => (loading' /\ ~ErrorShown(error') /\ result' = result)]_vars

\* a submit was accepted while the result of an earlier request is held
C7_Witness ==
    /\ last.accepted
    /\ loading
    /\ ~ErrorShown(error)
    /\ result \in Payloads

\* ==================================================================== C8
\* C8: whenever a request has failed (not loading, error shown) no result is
\* held
C8_FailedHoldsNoResult ==
    (~loading /\ ErrorShown(error)) => result = null

\* ==================================================================== C9
Tier(color) ==
    CASE color \in {"text-green-600", "#22c55e"} -> "good"
      [] color \in {"text-blue-600", "#eab308"} -> "fair"
      [] color = "text-yellow-600" -> "weak"
      [] color \in {"text-red-600", "#ef4444"} -> "poor"

FourTier(v) ==
    IF v >= Tenths(80) THEN "good"
    ELSE IF Tenths(60) <= v /\ v < Tenths(80) THEN "fair"
    ELSE IF Tenths(40) <= v /\ v < Tenths(60) THEN "weak"
    ELSE "poor"

ThreeTier(v) ==
    IF v >= Tenths(80) THEN "good"
    ELSE IF Tenths(60) <= v /\ v < Tenths(80) THEN "fair"
    ELSE "poor"

\* the values drawn with a colour: the overall score and the component rows
Drawn ==
    IF result \in Payloads
    THEN {renderScore(rev, result)}
         \cup {renderComponents(rev, result)[i] : i \in 1..Len(renderComponents(rev, result))}
    ELSE {}

\* C9 as stated: every drawn value is coloured by the four-tier rule
C9_FourTierEverywhere ==
    \A d \in Drawn : Tier(d.color) = FourTier(d.value)

\* C9 amended: revision 1 colours by the four-tier rule, revision 2 by the
\* three-tier rule (every value below 60 is poor)
C9_TierPerRevision ==
    \A d \in Drawn :
        Tier(d.color) = (IF rev = 1 THEN FourTier(d.value) ELSE ThreeTier(d.value))

\* revision 1 draws a result whose values fall in all four tiers, the
\* boundary values 80, 60 and 40 and values outside 0..100 among them
C9_Witness ==
    /\ rev = 1
    /\ {Tenths(80), Tenths(80) - 1, Tenths(60), Tenths(40) - 1, Tenths(105)}
            \subseteq {d.value : d \in Drawn}
    /\ {Tier(d.color) : d \in Drawn} = {"good", "fair", "weak", "poor"}

\* ==================================================================== C10
RenderedKeys == [i \in 1..Len(renderComponents(rev, result)) |->
                    renderComponents(rev, result)[i].key]

\* C10: the component rows are in the declared key order for every key
\* order of the received object
C10_DeclaredKeyOrder ==
    result \in Payloads => RenderedKeys = DeclaredKeys

\* ==================================================================== C11
\* C11: a call of the submit operation while a request is pending issues no
\* request and changes no state field
C11_SubmitWhilePendingIsNoOp ==
    [][(loading /\ last'.ev = "call" /\ last' # last)
        => UNCHANGED <<symbol, loading, error, result, inflight, reqCount>>]_vars

\* ==================================================================== C12
\* the outcome of a request has arrived: fetch rejected, or the body settled
OutcomeArrived == last.ev \in {"fetch_rejected", "json_settled"}

SuccessOutcome == last.ev = "json_settled" /\ ok(last.status) /\ last.body # NotJson

\* C12: once the outcome of a request has arrived, whatever its kind, the
\* component has left Pending: loading is false, nothing is in flight, and
\* the state is Succeeded (the body is stored) or Failed (an error is shown)
C12_OutcomeLeavesPending ==
    OutcomeArrived =>
        /\ ~loading
        /\ inflight = {}
        /\ IF SuccessOutcome THEN result = last.body /\ ~ErrorShown(error)
           ELSE ErrorShown(error)

\* a second request ended with a body that is not JSON and the button is
\* enabled again
C12_Witness ==
    /\ last.ev = "json_settled"
    /\ last.body = NotJson
    /\ reqCount = 2
    /\ ~loading
    /\ ~ButtonDisabled

\* ==================================================================== C13
\* the requests issued by a step
Issued == {req \in inflight' : \A old \in inflight : old.id # req.id}

\* C13: a step issues a request exactly when it is an accepted submit, and
\* then exactly one; no other step (a failure among them) issues any, so the
\* number of requests equals the number of accepted submits
C13_OneRequestPerAcceptedSubmit ==
    [][IF last'.accepted /\ last' # last
       THEN reqCount' = reqCount + 1 /\ Cardinality(Issued) = 1
       ELSE reqCount' = reqCount /\ Issued = {}]_vars

\* two requests were issued, the second failed, and nothing is in flight
C13_Witness ==
    /\ reqCount = 2
    /\ last.ev = "fetch_rejected"
    /\ ErrorShown(error)
    /\ inflight = {}

\* ==================================================================== C14
RECURSIVE TrimStart(_)
TrimStart(s) == IF s # <<>> /\ Head(s) = " " THEN TrimStart(Tail(s)) ELSE s

RECURSIVE TrimEnd(_)
TrimEnd(s) == IF s # <<>> /\ s[Len(s)] = " " THEN TrimEnd(SubSeq(s, 1, Len(s) - 1)) ELSE s

\* the normal form of a typed symbol: trimmed and upper-cased
Normalize(s) == toUpperCase(TrimEnd(TrimStart(s)))

\* C14: the symbol in the body of every request an accepted submit issues
\* is the typed symbol trimmed of surrounding whitespace and upper-cased
C14_RequestSymbolNormalized ==
    [][(last'.accepted /\ last' # last)
        => \A req \in Issued : req.symbol = Normalize(symbol)]_vars

\* ==================================================================== C15
\* the four tiers with the weak band folded into poor
Collapse(tier) == IF tier = "weak" THEN "poor" ELSE tier

\* C15: for every drawn value, revision 1's tier with weak folded into poor
\* is revision 2's tier
C15_CollapseGivesThreeTier ==
    \A d \in Drawn :
        Collapse(Tier(getScoreColor1(d.value))) = Tier(getScoreColor2(d.value))

\* a drawn result has a value in the weak band, which revision 2 calls poor,
\* and values in each other tier
C15_Witness ==
    /\ \E d \in Drawn : /\ Tier(getScoreColor1(d.value)) = "weak"
                        /\ Tier(getScoreColor2(d.value)) = "poor"
    /\ {Tier(getScoreColor2(d.value)) : d \in Drawn} = {"good", "fair", "poor"}
    /\ {Tenths(60) - 1, Tenths(40), Tenths(-5)} \subseteq {d.value : d \in Drawn}

\* ==================================================================== C16
\* the three lifecycle events, as the step that has just been taken
SubmitStep == last'.accepted /\ last' # last

SuccessStep ==
    /\ last'.ev = "json_settled" /\ ok(last'.status) /\ last'.body # NotJson
    /\ inflight' # inflight

FailureStep ==
    /\ \/ last'.ev = "fetch_rejected"
       \/ last'.ev = "json_settled" /\ ~(ok(last'.status) /\ last'.body # NotJson)
    /\ inflight' # inflight

\* C16: loading, error and result change only in the three lifecycle events:
\* an accepted submit leaves result and symbol alone, a failure leaves result
\* and symbol alone, a success leaves symbol alone and error empty, and every
\* other step leaves loading, error and result alone
C16_LifecycleFrames ==
    [][CASE SubmitStep -> UNCHANGED <<symbol, result>>
         [] FailureStep -> UNCHANGED <<symbol, result>>
         [] SuccessStep -> UNCHANGED <<symbol, error>> /\ ~ErrorShown(error')
         [] OTHER -> UNCHANGED <<loading, error, result>>]_vars

\* a request failed while the result of an earlier request was held, and the
\* result is still held
C16_Witness ==
    /\ last.ev \in {"fetch_rejected", "json_settled"}
    /\ ErrorShown(error)
    /\ result \in Payloads
    /\ symbol # <<>>
    /\ ~loading

\* ==================================================================== C17
Clamp(v, lo, hi) == IF v < lo THEN lo ELSE IF v > hi THEN hi ELSE v

\* C17: the fill of every progress bar drawn is clamp(value, 0, 100)
C17_FillIsClamped ==
    result \in Payloads =>
        \A bar \in progressBars(rev, result) :
            bar.fill = Clamp(bar.value, Tenths(0), Tenths(100))

\* ==================================================================== C18
\* C18: while a request is pending no error is held
C18_NoErrorWhilePending ==
    loading => ~ErrorShown(error)

\* a second request is pending with no error held, the first having left no
\* result
C18_Witness ==
    /\ loading
    /\ inflight # {}
    /\ reqCount = 2
    /\ result = null
    /\ ~ErrorShown(error)
    /\ last.ev = "fetch_resolved"
    /\ last.status = 500

\* ==================================================================== C19
\* the requests a step takes out of flight
Settled == {req \in inflight : \A new \in inflight' : new.id # req.id}

\* the symbol a stored result was asked for is the one the field shows
ResultIsForShownSymbol ==
    SuccessStep => \A req \in Settled : req.symbol = toUpperCase(symbol')

\* C19 as stated: in both revisions the symbol field does not change while a
\* request is pending, and a result is stored for the symbol in the field
C19_SymbolFrozenWhilePending ==
    [][(loading => symbol' = symbol) /\ ResultIsForShownSymbol]_vars

\* C19 amended: in revision 1 the symbol field does not change while a
\* request is pending and a result is stored for the symbol in the field; in
\* both revisions the symbol of a request in flight is not changed by typing
C19_SymbolFrozenInRevision1 ==
    [][/\ rev = 1 => ((loading => symbol' = symbol) /\ ResultIsForShownSymbol)
       /\ \A req \in inflight, new \in inflight' :
              req.id = new.id => req.symbol = new.symbol]_vars

\* revision 1 has stored the result of a request for the symbol in the field
C19_Witness ==
    /\ rev = 1
    /\ last.ev = "json_settled"
    /\ ok(last.status)
    /\ result = last.body
    /\ result \in Payloads
    /\ symbol # <<>>
    /\ ~loading

====
